---- MODULE Spec2Model ----
(***************************************************************************)
(* Model of the Geany modeline plugin (modeline.c): on document-open and   *)
(* document-save the first 50 lines are scanned for a modeline, the        *)
(* matched line is split into tokens and each token is interpreted         *)
(* against the option table.                                               *)
(*                                                                         *)
(* C strings are sequences of one-character strings.  A NULL entry of a    *)
(* NULL-terminated string vector is an index past the end of a sequence.   *)
(***************************************************************************)
EXTENDS Integers, Sequences, FiniteSets, TLC

VARIABLES doc, trace, pre, event

vars == <<doc, trace, pre, event>>

(***************************************************************************)
(* Bounds of the model.                                                    *)
(***************************************************************************)
\* documents carry 0..MaxPad ordinary lines in front of their modeline
MaxPad == 2
\* the indent width before the first event ranges over 1..MaxInitWidth
MaxInitWidth == 2

(***************************************************************************)
(* GLib string helpers, as modeline.c uses them.                           *)
(***************************************************************************)
MIN(a, b) == IF a < b THEN a ELSE b

\* g_ascii_isspace
g_ascii_isspace(c) == c \in {" ", "\t", "\n", "\r", "\f"}

UpperAlpha == <<"A", "B", "C", "D", "E", "F", "G", "H", "I", "J", "K", "L", "M", "N", "O", "P", "Q", "R", "S", "T", "U", "V", "W", "X", "Y", "Z">>
LowerAlpha == <<"a", "b", "c", "d", "e", "f", "g", "h", "i", "j", "k", "l", "m", "n", "o", "p", "q", "r", "s", "t", "u", "v", "w", "x", "y", "z">>

\* g_ascii_tolower
g_ascii_tolower(c) ==
    IF \E i \in 1..26 : UpperAlpha[i] = c
    THEN LowerAlpha[CHOOSE i \in 1..26 : UpperAlpha[i] = c]
    ELSE c

\* g_ascii_strcasecmp: 0 when the strings are equal ignoring ASCII case,
\* non-zero otherwise (the sign of the difference is not used by the plugin).
g_ascii_strcasecmp(s1, s2) ==
    IF /\ Len(s1) = Len(s2)
       /\ \A i \in 1..Len(s1) : g_ascii_tolower(s1[i]) = g_ascii_tolower(s2[i])
    THEN 0 ELSE 1

RECURSIVE StripLeft(_)
StripLeft(s) ==
    IF s # <<>> /\ g_ascii_isspace(Head(s)) THEN StripLeft(Tail(s)) ELSE s

RECURSIVE StripRight(_)
StripRight(s) ==
    IF s # <<>> /\ g_ascii_isspace(s[Len(s)])
    THEN StripRight(SubSeq(s, 1, Len(s) - 1)) ELSE s

\* g_strstrip: removes leading and trailing whitespace
g_strstrip(s) == StripRight(StripLeft(s))

\* g_strstr_len(haystack, -1, needle) # NULL
g_strstr_len(haystack, needle) ==
    \E i \in 1..(Len(haystack) - Len(needle) + 1) :
        SubSeq(haystack, i, i + Len(needle) - 1) = needle

\* index of the first character of s that is in delims, 0 when there is none
RECURSIVE FirstDelim(_, _, _)
FirstDelim(s, delims, i) ==
    IF i > Len(s) THEN 0
    ELSE IF s[i] \in delims THEN i
    ELSE FirstDelim(s, delims, i + 1)

\* g_strsplit_set(s, delims, 0): the empty string gives the empty vector,
\* otherwise n delimiters give n + 1 fields, empty ones included
RECURSIVE SplitAll(_, _)
SplitAll(s, delims) ==
    LET p == FirstDelim(s, delims, 1) IN
    IF p = 0 THEN <<s>>
    ELSE <<SubSeq(s, 1, p - 1)>> \o SplitAll(SubSeq(s, p + 1, Len(s)), delims)

g_strsplit_set(s, delims) == IF s = <<>> THEN <<>> ELSE SplitAll(s, delims)

\* g_strsplit(s, "=", 2): the empty string gives the empty vector; at most
\* two pieces, the second being everything after the first "="
g_strsplit2(s, delim) ==
    LET p == FirstDelim(s, {delim}, 1) IN
    IF s = <<>> THEN <<>>
    ELSE IF p = 0 THEN <<s>>
    ELSE <<SubSeq(s, 1, p - 1), SubSeq(s, p + 1, Len(s))>>

(***************************************************************************)
(* g_ascii_strtoull(s, NULL, 10) and its assignment to a gint.  A guint64  *)
(* is kept as four 16-bit limbs, least significant first, so that every    *)
(* intermediate value fits the model checker's integers.                   *)
(***************************************************************************)
LimbBase == 2^16

DigitChars == <<"0", "1", "2", "3", "4", "5", "6", "7", "8", "9">>
IsDigit(c) == \E i \in 1..10 : DigitChars[i] = c
DigitVal(c) == (CHOOSE i \in 1..10 : DigitChars[i] = c) - 1

U64Zero == <<0, 0, 0, 0>>
U64Max == <<LimbBase - 1, LimbBase - 1, LimbBase - 1, LimbBase - 1>>

\* acc * 10 + d as [val, overflow]
U64MulAdd(acc, d) ==
    LET c1 == acc[1] * 10 + d
        c2 == acc[2] * 10 + (c1 \div LimbBase)
        c3 == acc[3] * 10 + (c2 \div LimbBase)
        c4 == acc[4] * 10 + (c3 \div LimbBase)
    IN [val |-> <<c1 % LimbBase, c2 % LimbBase, c3 % LimbBase, c4 % LimbBase>>,
        overflow |-> c4 >= LimbBase]

\* two's complement negation modulo 2^64
U64Neg(x) ==
    LET n1 == (LimbBase - 1 - x[1]) + 1
        n2 == (LimbBase - 1 - x[2]) + (n1 \div LimbBase)
        n3 == (LimbBase - 1 - x[3]) + (n2 \div LimbBase)
        n4 == (LimbBase - 1 - x[4]) + (n3 \div LimbBase)
    IN <<n1 % LimbBase, n2 % LimbBase, n3 % LimbBase, n4 % LimbBase>>

\* the digits are consumed up to the first character that is not one
RECURSIVE ParseDigits(_, _, _)
ParseDigits(s, acc, overflow) ==
    IF s = <<>> \/ ~IsDigit(Head(s)) THEN [val |-> acc, overflow |-> overflow]
    ELSE LET r == U64MulAdd(acc, DigitVal(Head(s)))
         IN ParseDigits(Tail(s), r.val, overflow \/ r.overflow)

\* g_ascii_strtoull: leading whitespace is skipped, an optional sign is
\* accepted, no digits give 0, a value above G_MAXUINT64 gives G_MAXUINT64
\* (the sign is then not applied, as strtoull does), and a leading "-"
\* negates the value modulo 2^64.
g_ascii_strtoull(nptr) ==
    LET s == StripLeft(nptr)
        negative == s # <<>> /\ Head(s) = "-"
        signed == s # <<>> /\ Head(s) \in {"-", "+"}
        r == ParseDigits(IF signed THEN Tail(s) ELSE s, U64Zero, FALSE)
    IN IF r.overflow THEN U64Max
       ELSE IF negative THEN U64Neg(r.val)
       ELSE r.val

\* the conversion of a guint64 to gint keeps the low 32 bits, as a signed number
ToGint(x) ==
    IF x[2] >= LimbBase \div 2
    THEN (x[2] - LimbBase) * LimbBase + x[1]
    ELSE x[2] * LimbBase + x[1]

(***************************************************************************)
(* The document as the plugin sees it (GeanyDocument and its editor), and  *)
(* the calls a handler run makes.  A world w is [doc, trace]; every        *)
(* function of modeline.c maps a world to the world it leaves behind.      *)
(***************************************************************************)
Call(name, iarg, sarg) == [call |-> name, iarg |-> iarg, sarg |-> sarg]

Log(w, name, iarg, sarg) == [w EXCEPT !.trace = Append(@, Call(name, iarg, sarg))]

\* editor_get_indent_prefs(editor)->type: the editor's current indent type
editor_get_indent_prefs_type(w) == w.doc.indent_type

editor_set_indent_type(w, type) == [w EXCEPT !.doc.indent_type = type]

editor_set_indent_width(w, width) == [w EXCEPT !.doc.indent_width = width]

\* document_set_encoding(doc, new_encoding)
document_set_encoding(w, str) == [w EXCEPT !.doc.encoding = str]

\* document_reload_force(doc, forced_enc): the request made to the host
document_reload_force(w, forced_enc) == Log(w, "document_reload_force", 0, forced_enc)

(***************************************************************************)
(* The option handlers.                                                    *)
(***************************************************************************)
opt_expand_tab(w, iarg) ==
    editor_set_indent_type(Log(w, "opt_expand_tab", iarg, <<>>),
                           IF iarg # 0 THEN "GEANY_INDENT_TYPE_SPACES"
                                       ELSE "GEANY_INDENT_TYPE_TABS")

\* a width handler that resets the indent type instead of re-applying it
opt_tab_stop_resets_type(w, iarg) ==
    editor_set_indent_type(
        editor_set_indent_width(Log(w, "opt_tab_stop", iarg, <<>>), iarg),
        "GEANY_INDENT_TYPE_TABS")

opt_tab_stop(w, iarg) ==
    LET type == editor_get_indent_prefs_type(w)
    IN editor_set_indent_type(
           editor_set_indent_width(Log(w, "opt_tab_stop", iarg, <<>>), iarg),
           type)

opt_wrap(w, iarg) ==
    [Log(w, "opt_wrap", iarg, <<>>) EXCEPT
        !.doc.line_wrapping = iarg,
        !.doc.wrap_mode = IF iarg # 0 THEN "SC_WRAP_WORD" ELSE "SC_WRAP_NONE"]

opt_enc(w, str) == document_set_encoding(Log(w, "opt_enc", 0, str), str)

(***************************************************************************)
(* The static tables.                                                      *)
(***************************************************************************)
NoAlias == [null |-> TRUE, s |-> <<>>]
Alias(s) == [null |-> FALSE, s |-> s]

opts == <<
    [name |-> <<"e", "x", "p", "a", "n", "d", "t", "a", "b">>, alias |-> Alias(<<"e", "t">>),
     arg_type |-> "MODE_OPT_ARG_TRUE", cb |-> "opt_expand_tab"],
    [name |-> <<"n", "o", "e", "x", "p", "a", "n", "d", "t", "a", "b">>, alias |-> NoAlias,
     arg_type |-> "MODE_OPT_ARG_FALSE", cb |-> "opt_expand_tab"],
    [name |-> <<"t", "a", "b", "s", "t", "o", "p">>, alias |-> Alias(<<"t", "s">>),
     arg_type |-> "MODE_OPT_ARG_INT", cb |-> "opt_tab_stop"],
    [name |-> <<"s", "o", "f", "t", "t", "a", "b", "s", "t", "o", "p">>, alias |-> Alias(<<"s", "t", "s">>),
     arg_type |-> "MODE_OPT_ARG_INT", cb |-> "opt_tab_stop"],
    [name |-> <<"s", "h", "i", "f", "t", "w", "i", "d", "t", "h">>, alias |-> Alias(<<"s", "w">>),
     arg_type |-> "MODE_OPT_ARG_INT", cb |-> "opt_tab_stop"],
    [name |-> <<"w", "r", "a", "p">>, alias |-> NoAlias,
     arg_type |-> "MODE_OPT_ARG_TRUE", cb |-> "opt_wrap"],
    [name |-> <<"n", "o", "w", "r", "a", "p">>, alias |-> NoAlias,
     arg_type |-> "MODE_OPT_ARG_FALSE", cb |-> "opt_wrap"],
    [name |-> <<"f", "i", "l", "e", "e", "n", "c", "o", "d", "i", "n", "g">>, alias |-> Alias(<<"e", "n", "c", "o", "d", "i", "n", "g">>),
     arg_type |-> "MODE_OPT_ARG_STR", cb |-> "opt_enc"] >>

mode_pre == << <<" ", "g", "e", "a", "n", "y", ":">>, <<" ", "v", "i", ":">>, <<" ", "v", "i", "m", ":">>, <<" ", "e", "x", ":">> >>

\* opts[i].cb(doc, &iarg) for the integer handlers
CallInt(w, cb, iarg) ==
    CASE cb = "opt_expand_tab" -> opt_expand_tab(w, iarg)
      [] cb = "opt_tab_stop" -> opt_tab_stop(w, iarg)
      [] cb = "opt_wrap" -> opt_wrap(w, iarg)
      [] OTHER -> w

\* opts[i].cb(doc, val) for the string handler
CallStr(w, cb, str) ==
    CASE cb = "opt_enc" -> opt_enc(w, str)
      [] OTHER -> w

(***************************************************************************)
(* interpret_option                                                        *)
(***************************************************************************)
\* the test of line 226-227: name matched, or the alias is not NULL and matched
OptMatches(o, key) ==
    \/ g_ascii_strcasecmp(o.name, key) = 0
    \/ (~o.alias.null /\ g_ascii_strcasecmp(o.alias.s, key) = 0)

\* the switch on opts[i].arg_type; val is [null, s]
Dispatch(w, o, val) ==
    CASE o.arg_type = "MODE_OPT_ARG_TRUE" -> CallInt(w, o.cb, 1)
      [] o.arg_type = "MODE_OPT_ARG_FALSE" -> CallInt(w, o.cb, 0)
      [] o.arg_type = "MODE_OPT_ARG_INT" ->
            IF ~val.null
            THEN CallInt(w, o.cb, ToGint(g_ascii_strtoull(g_strstrip(val.s))))
            ELSE w
      [] o.arg_type = "MODE_OPT_ARG_STR" ->
            IF ~val.null THEN CallStr(w, o.cb, val.s) ELSE w
      [] OTHER -> w

\* the loop over the option table: the first matching entry is dispatched
RECURSIVE OptLoop(_, _, _, _)
OptLoop(w, key, val, i) ==
    IF i > Len(opts) THEN w
    ELSE IF OptMatches(opts[i], key) THEN Dispatch(w, opts[i], val)
    ELSE OptLoop(w, key, val, i + 1)

\* g_strsplit never returns NULL, so the test of line 212 always succeeds;
\* kv[0] is NULL for the empty token and kv[1] is NULL when there is no "="
interpret_option(w, opt) ==
    LET w0 == Log(w, "interpret_option", 0, opt)
        kv == g_strsplit2(opt, "=")
        kv_null == FALSE
        key_null == Len(kv) < 1
        val_null == Len(kv) < 2
    IN IF ~kv_null
       THEN IF key_null \/ val_null
            THEN w0
            ELSE OptLoop(w0, kv[1], [null |-> FALSE, s |-> kv[2]], 1)
       ELSE OptLoop(w0, opt, [null |-> TRUE, s |-> <<>>], 1)

(***************************************************************************)
(* parse_options                                                           *)
(***************************************************************************)
\* the loop of lines 191-194 from C index i - 1; tok[i] is never NULL inside
\* the loop, so every field, the empty ones too, goes to interpret_option
RECURSIVE TokLoop(_, _, _)
TokLoop(w, tok, i) ==
    IF i > Len(tok) THEN w
    ELSE TokLoop(interpret_option(w, tok[i]), tok, i + 1)

parse_options(w, buf) ==
    LET tok == g_strsplit_set(buf, {":", " ", ","})
    IN TokLoop(Log(w, "parse_options", 0, buf), tok, 2)

(***************************************************************************)
(* scan_document                                                           *)
(***************************************************************************)
\* sci_get_line(sci, line): the text of the line, its end-of-line included
sci_get_line(w, line) == w.doc.lines[line + 1]

sci_get_line_count(w) == Len(w.doc.lines)

\* a scan bound that is the line count alone
ScanLimitUncapped(lines) == lines

\* MIN(lines, 50)
ScanLimit(lines) == MIN(lines, 50)

\* the loop of lines 165-170 from table index i: the index of the first
\* prefix found in buf, 0 when the loop ends without one
RECURSIVE PrefixLoop(_, _)
PrefixLoop(buf, i) ==
    IF i > Len(mode_pre) THEN 0
    ELSE IF g_strstr_len(buf, mode_pre[i]) THEN i
    ELSE PrefixLoop(buf, i + 1)

\* a line loop that goes on after a modeline was parsed
RECURSIVE LineLoopGoesOn(_, _)
LineLoopGoesOn(w, line) ==
    IF ~(line < ScanLimit(sci_get_line_count(w))) THEN w
    ELSE LET buf == g_strstrip(sci_get_line(w, line))
         IN IF PrefixLoop(buf, 1) # 0
            THEN LineLoopGoesOn(parse_options(w, buf), line + 1)
            ELSE LineLoopGoesOn(w, line + 1)

\* the loop of lines 162-171 from line: the first line holding a prefix is
\* parsed and ends the scan
RECURSIVE LineLoop(_, _)
LineLoop(w, line) ==
    IF ~(line < ScanLimit(sci_get_line_count(w))) THEN w
    ELSE LET buf == g_strstrip(sci_get_line(w, line))
         IN IF PrefixLoop(buf, 1) # 0
            THEN parse_options(w, buf)
            ELSE LineLoop(w, line + 1)

scan_document(w) == IF ~w.doc.is_valid THEN w ELSE LineLoop(w, 0)

(***************************************************************************)
(* The two hooks.                                                          *)
(***************************************************************************)
\* an open hook that asks for the reload with the encoding it started with
on_document_open_reloads_first(w) ==
    scan_document(document_reload_force(w, w.doc.encoding))

on_document_open(w) ==
    LET w1 == scan_document(w)
    IN document_reload_force(w1, w1.doc.encoding)

on_document_save(w) == scan_document(w)

(***************************************************************************)
(* Documents and option tokens the model draws its inputs from.            *)
(***************************************************************************)
CodeLine == <<"i", "n", "t", " ", "m", "a", "i", "n", "(", "v", "o", "i", "d", ")", " ", "{", " ", "r", "e", "t", "u", "r", "n", " ", "0", ";", " ", "}", "\n">>
\* "// vim: et ts=2 sw=2"
LineEtTs2Sw2 == <<"/", "/", " ", "v", "i", "m", ":", " ", "e", "t", " ", "t", "s", "=", "2", " ", "s", "w", "=", "2", "\n">>
\* "# vim:noexpandtab sw=4 ts=4"
LineNoexpandtab == <<"#", " ", "v", "i", "m", ":", "n", "o", "e", "x", "p", "a", "n", "d", "t", "a", "b", " ", "s", "w", "=", "4", " ", "t", "s", "=", "4", "\n">>
LineTs4 == <<"#", " ", "v", "i", "m", ":", " ", "t", "s", "=", "4", "\n">>
LineTs8Enc == <<"#", " ", "v", "i", "m", ":", " ", "t", "s", "=", "8", " ", "e", "n", "c", "o", "d", "i", "n", "g", "=", "U", "T", "F", "-", "8", "\n">>
LineFoo == <<"#", " ", "v", "i", "m", ":", " ", "f", "o", "o", "\n">>
LineGeanySw8 == <<" ", " ", "#", " ", "g", "e", "a", "n", "y", ":", " ", "s", "w", "=", "8", " ", "n", "o", "w", "r", "a", "p", "=", "1", "\r", "\n">>
\* after g_strstrip this line starts with "vim:", which holds no prefix
LineNoLeadingSpace == <<"\t", " ", "v", "i", "m", ":", " ", "t", "s", "=", "4", "\n">>
LineTrailingEq == <<"#", " ", "v", "i", "m", ":", " ", "s", "w", "=", "4", " ", "t", "s", "=", "\n">>
LineLeadingEq == <<"#", " ", "v", "i", "m", ":", " ", "=", "4", " ", "b", "o", "g", "u", "s", "=", "1", " ", "t", "s", "=", "8", "\n">>
LineEx == <<"/", "*", " ", "e", "x", ":", " ", "T", "S", "=", "3", ",", "w", "r", "a", "p", "=", "1", ",", "e", "n", "c", "o", "d", "i", "n", "g", "=", "l", "a", "t", "i", "n", "1", ",", "e", "n", "c", "o", "d", "i", "n", "g", "=", " ", "*", "/", "\n">>
LineMidVi == <<"x", " ", "=", " ", "1", ";", " ", "/", "/", " ", "v", "i", ":", " ", "s", "w", "=", "2", " ", "E", "x", "p", "a", "n", "d", "T", "a", "b", "=", "1", " ", "s", "t", "s", "=", "-", "5", "\n">>

PadDoc(n, ml) == [i \in 1..(n + 1) |-> IF i <= n THEN CodeLine ELSE ml]

\* the document with no text: one empty line
EmptyDocument == << <<>> >>

Documents ==
    {PadDoc(n, ml) : n \in (0..MaxPad) \cup {49, 50}, ml \in {LineTs4, LineTs8Enc}}
    \cup { EmptyDocument,
           <<CodeLine, CodeLine>>,
           <<LineEtTs2Sw2, CodeLine>>,
           <<LineNoexpandtab>>,
           <<LineTs4, LineTs8Enc>>,
           <<CodeLine, LineFoo, LineGeanySw8>>,
           <<LineNoLeadingSpace, CodeLine>>,
           <<LineNoLeadingSpace, LineGeanySw8>>,
           <<LineTrailingEq>>,
           <<LineLeadingEq>>,
           <<LineEx>>,
           <<CodeLine, LineMidVi, LineTs4>> }

OptionTokens == {
    <<"e", "t">>, <<"e", "x", "p", "a", "n", "d", "t", "a", "b">>, <<"n", "o", "e", "x", "p", "a", "n", "d", "t", "a", "b">>, <<"w", "r", "a", "p">>, <<"n", "o", "w", "r", "a", "p">>,
    <<"e", "t", "=", "1">>, <<"E", "X", "P", "A", "N", "D", "T", "A", "B", "=", "y", "e", "s">>, <<"n", "o", "e", "x", "p", "a", "n", "d", "t", "a", "b", "=", "1">>, <<"w", "r", "a", "p", "=", "1">>, <<"n", "o", "w", "r", "a", "p", "=", "0">>,
    <<"t", "s">>, <<"t", "s", "=", "4">>, <<"T", "a", "b", "S", "t", "o", "p", "=", "8">>, <<"s", "t", "s", "=", "2">>, <<"s", "o", "f", "t", "t", "a", "b", "s", "t", "o", "p", "=", "3">>,
    <<"s", "w", "=", "4">>, <<"s", "h", "i", "f", "t", "w", "i", "d", "t", "h", "=", "0">>, <<"t", "s", "=", "x">>, <<"t", "s", "=", "4", ";">>, <<"t", "s", "=", "+", "7">>,
    <<"t", "s", "=", "-", "5">>, <<"s", "w", "=", "2", "1", "4", "7", "4", "8", "3", "6", "4", "7">>, <<"s", "w", "=", "2", "1", "4", "7", "4", "8", "3", "6", "4", "8">>, <<"s", "w", "=", "4", "2", "9", "4", "9", "6", "7", "2", "9", "5">>,
    <<"t", "s", "=", "4", "2", "9", "4", "9", "6", "7", "2", "9", "8">>, <<"t", "s", "=", "1", "8", "4", "4", "6", "7", "4", "4", "0", "7", "3", "7", "0", "9", "5", "5", "1", "6", "1", "6">>, <<"t", "s", "=", "0", "0", "7">>,
    <<"=", "4">>, <<"t", "s", "=">>, <<"e", "n", "c", "o", "d", "i", "n", "g", "=">>, <<"=">>, <<>>,
    <<"e", "n", "c", "o", "d", "i", "n", "g", "=", "U", "T", "F", "-", "8">>, <<"f", "i", "l", "e", "e", "n", "c", "o", "d", "i", "n", "g", "=", "l", "a", "t", "i", "n", "1">>, <<"e", "n", "c", "o", "d", "i", "n", "g">>,
    <<"v", "i", "m">>, <<"b", "o", "g", "u", "s", "=", "1">>, <<"t", "s", "=", "4", "=", "5">> }

IndentTypes ==
    {"GEANY_INDENT_TYPE_SPACES", "GEANY_INDENT_TYPE_TABS", "GEANY_INDENT_TYPE_BOTH"}

Encodings == { <<"U", "T", "F", "-", "8">>, <<"I", "S", "O", "-", "8", "8", "5", "9", "-", "2">> }

InitialDocs ==
    [is_valid : BOOLEAN, lines : Documents, indent_type : IndentTypes,
     indent_width : 1..MaxInitWidth, line_wrapping : {0},
     wrap_mode : {"SC_WRAP_NONE"}, encoding : Encodings]
    \cup
    [is_valid : BOOLEAN, lines : Documents, indent_type : IndentTypes,
     indent_width : 1..MaxInitWidth, line_wrapping : {1},
     wrap_mode : {"SC_WRAP_WORD"}, encoding : Encodings]

(***************************************************************************)
(* The state machine: the host raises document-open and document-save.     *)
(***************************************************************************)
Init ==
    /\ doc \in InitialDocs
    /\ trace = <<>>
    /\ pre = doc
    /\ event = "none"

Run(w, ev) ==
    /\ doc' = w.doc
    /\ trace' = w.trace
    /\ pre' = doc
    /\ event' = ev

OnDocumentOpen == Run(on_document_open([doc |-> doc, trace |-> <<>>]), "document-open")

OnDocumentSave == Run(on_document_save([doc |-> doc, trace |-> <<>>]), "document-save")

Next == OnDocumentOpen \/ OnDocumentSave

Spec == Init /\ [][Next]_vars

(***************************************************************************)
(* interpret_option on its own: one call per step, on a token drawn from   *)
(* OptionTokens, on the empty valid document.                              *)
(***************************************************************************)
InitInterpret == Init /\ doc.is_valid /\ doc.lines = EmptyDocument

InterpretOption ==
    \E opt \in OptionTokens :
        Run(interpret_option([doc |-> doc, trace |-> <<>>], opt), "interpret_option")

NextInterpret == InterpretOption

SpecInterpret == InitInterpret /\ [][NextInterpret]_vars

(***************************************************************************)
(* Vocabulary of the properties.                                           *)
(***************************************************************************)
Events == {"document-open", "document-save"}

CallsOf(names) == SelectSeq(trace, LAMBDA c : c.call \in names)

HandlerCalls == CallsOf({"opt_expand_tab", "opt_tab_stop", "opt_wrap", "opt_enc"})

Parsed == CallsOf({"parse_options"})

Interpreted == [i \in DOMAIN CallsOf({"interpret_option"}) |->
                   CallsOf({"interpret_option"})[i].sarg]

Reloads == CallsOf({"document_reload_force"})

Config(d) ==
    [indent_type |-> d.indent_type, indent_width |-> d.indent_width,
     line_wrapping |-> d.line_wrapping, wrap_mode |-> d.wrap_mode,
     encoding |-> d.encoding]

\* the token of the interpret_option step that led to this state
StepToken == trace[1].sarg

HasEq(t) == \E i \in 1..Len(t) : t[i] = "="

\* a token with "=" that starts or ends with it
Malformed(t) == HasEq(t) /\ (t[1] = "=" \/ t[Len(t)] = "=")

\* the part of a token before its first "=" (the whole token without one)
KeyOf(t) == IF HasEq(t) THEN SubSeq(t, 1, FirstDelim(t, {"="}, 1) - 1) ELSE t

\* the part of a token after its first "="
ValueOf(t) == SubSeq(t, FirstDelim(t, {"="}, 1) + 1, Len(t))

WidthKeys == { <<"t", "a", "b", "s", "t", "o", "p">>, <<"t", "s">>, <<"s", "o", "f", "t", "t", "a", "b", "s", "t", "o", "p">>, <<"s", "t", "s">>,
               <<"s", "h", "i", "f", "t", "w", "i", "d", "t", "h">>, <<"s", "w">> }

OptionNames == WidthKeys \cup
    { <<"e", "x", "p", "a", "n", "d", "t", "a", "b">>, <<"e", "t">>, <<"n", "o", "e", "x", "p", "a", "n", "d", "t", "a", "b">>, <<"w", "r", "a", "p">>, <<"n", "o", "w", "r", "a", "p">>,
      <<"f", "i", "l", "e", "e", "n", "c", "o", "d", "i", "n", "g">>, <<"e", "n", "c", "o", "d", "i", "n", "g">> }

Lowered(t) == [i \in 1..Len(t) |-> g_ascii_tolower(t[i])]

UnknownKey(t) == Lowered(KeyOf(t)) \notin OptionNames

ModelinePrefixes == { <<" ", "g", "e", "a", "n", "y", ":">>, <<" ", "v", "i", ":">>, <<" ", "v", "i", "m", ":">>, <<" ", "e", "x", ":">> }

IsModeline(l) == \E p \in ModelinePrefixes : g_strstr_len(g_strstrip(l), p)

\* the 1-based positions, among the first 50 lines, of the lines holding a prefix
Candidates(lines) == {i \in 1..MIN(Len(lines), 50) : IsModeline(lines[i])}

FirstCandidate(lines) ==
    CHOOSE i \in Candidates(lines) : \A j \in Candidates(lines) : i <= j

\* the fields of a matched line after field 0
FieldsAfterFirst(buf) == Tail(g_strsplit_set(buf, {":", " ", ","}))

\* n >= 0 written in base 10
RECURSIVE Decimal(_)
Decimal(n) ==
    IF n < 10 THEN <<DigitChars[n + 1]>>
    ELSE Append(Decimal(n \div 10), DigitChars[(n % 10) + 1])

RECURSIVE StripZeros(_)
StripZeros(s) == IF Len(s) > 1 /\ Head(s) = "0" THEN StripZeros(Tail(s)) ELSE s

AllDigits(s) == s # <<>> /\ \A i \in 1..Len(s) : IsDigit(s[i])

\* the configuration left by interpreting the tokens of toks, in order
RECURSIVE InterpretAll(_, _)
InterpretAll(w, toks) ==
    IF toks = <<>> THEN w
    ELSE InterpretAll(interpret_option(w, Head(toks)), Tail(toks))

(***************************************************************************)
(* C1: interpret_option on a bare token naming a boolean option invokes    *)
(* the option's handler: "et", "expandtab" and "wrap" with true (indent    *)
(* type spaces, wrapping on), "noexpandtab" and "nowrap" with false        *)
(* (indent type tabs, wrapping off).                                       *)
(***************************************************************************)
C1_BareFlagInvokesHandler ==
    event = "interpret_option" =>
        /\ StepToken \in { <<"e", "t">>, <<"e", "x", "p", "a", "n", "d", "t", "a", "b">> } =>
              /\ HandlerCalls = <<Call("opt_expand_tab", 1, <<>>)>>
              /\ doc.indent_type = "GEANY_INDENT_TYPE_SPACES"
        /\ StepToken = <<"n", "o", "e", "x", "p", "a", "n", "d", "t", "a", "b">> =>
              /\ HandlerCalls = <<Call("opt_expand_tab", 0, <<>>)>>
              /\ doc.indent_type = "GEANY_INDENT_TYPE_TABS"
        /\ StepToken = <<"w", "r", "a", "p">> =>
              /\ HandlerCalls = <<Call("opt_wrap", 1, <<>>)>>
              /\ doc.line_wrapping = 1
        /\ StepToken = <<"n", "o", "w", "r", "a", "p">> =>
              /\ HandlerCalls = <<Call("opt_wrap", 0, <<>>)>>
              /\ doc.line_wrapping = 0

(***************************************************************************)
(* C2: for a valid document whose first line is "// vim: et ts=2 sw=2",    *)
(* after the pass the indent type is spaces and the indent width is 2,     *)
(* whatever the configuration was before; the final width is the one of    *)
(* the last width token of the line.                                       *)
(***************************************************************************)
C2_EtTs2Sw2EndToEnd ==
    (event \in Events /\ pre.is_valid /\ doc.lines[1] = LineEtTs2Sw2) =>
        /\ doc.indent_type = "GEANY_INDENT_TYPE_SPACES"
        /\ doc.indent_width = 2
        /\ LET widths == CallsOf({"opt_tab_stop"})
           IN widths # <<>> /\ doc.indent_width = widths[Len(widths)].iarg

(***************************************************************************)
(* C3: tokenizing "# vim:noexpandtab sw=4 ts=4" hands interpret_option     *)
(* exactly "noexpandtab", "sw=4", "ts=4", in that order; the marker word   *)
(* of the prefix and empty fields are never handed to it.                  *)
(***************************************************************************)
C3_TokensHandedToInterpreter ==
    (event \in Events /\ pre.is_valid) =>
        /\ doc.lines = <<LineNoexpandtab>> =>
              Interpreted = << <<"n", "o", "e", "x", "p", "a", "n", "d", "t", "a", "b">>, <<"s", "w", "=", "4">>, <<"t", "s", "=", "4">> >>
        /\ \A i \in DOMAIN Interpreted :
              Interpreted[i] \notin { <<>>, <<"g", "e", "a", "n", "y">>, <<"v", "i">>, <<"v", "i", "m">>, <<"e", "x">> }

(***************************************************************************)
(* C4: interpret_option on a token with "=" that starts or ends with "="   *)
(* invokes no handler and leaves indent type, indent width, line-wrap      *)
(* mode and encoding unchanged.                                            *)
(***************************************************************************)
C4_MalformedTokenIsNoOp ==
    (event = "interpret_option" /\ Malformed(StepToken)) =>
        /\ HandlerCalls = <<>>
        /\ Config(doc) = Config(pre)

(***************************************************************************)
(* C5: among the first min(lineCount, 50) lines, the lowest-indexed line   *)
(* whose stripped text holds one of the four prefixes is handed to         *)
(* parse_options exactly once, no other line ever is, and the tokens       *)
(* interpreted are the fields of that line alone.                          *)
(***************************************************************************)
C5_FirstMatchingLineOnly ==
    event \in Events =>
        /\ Len(Parsed) <= 1
        /\ (pre.is_valid /\ Candidates(doc.lines) # {}) =>
              LET buf == g_strstrip(doc.lines[FirstCandidate(doc.lines)])
              IN /\ Parsed = <<Call("parse_options", 0, buf)>>
                 /\ Interpreted = FieldsAfterFirst(buf)

\* a pass over a document with two modelines, the first of which set nothing
C5_Witness ==
    /\ event \in Events
    /\ pre.is_valid
    /\ Cardinality(Candidates(doc.lines)) >= 2
    /\ Len(Parsed) = 1
    /\ HandlerCalls = <<>>

(***************************************************************************)
(* C6: when no line among the first 50 holds a prefix after stripping, the *)
(* pass invokes no handler and leaves indent type, indent width, wrap mode *)
(* and encoding unchanged; a modeline at line index 50 or later is never   *)
(* parsed, one at index 49 is.                                             *)
(***************************************************************************)
C6_NoModelineNoMutation ==
    event \in Events =>
        /\ Candidates(doc.lines) = {} =>
              /\ Config(doc) = Config(pre)
              /\ Parsed = <<>> /\ Interpreted = <<>> /\ HandlerCalls = <<>>
        /\ \A i \in 51..Len(doc.lines) :
              \A c \in DOMAIN Parsed :
                 Parsed[c].sarg = g_strstrip(doc.lines[i]) =>
                    \E j \in 1..50 : g_strstrip(doc.lines[j]) = Parsed[c].sarg
        /\ (pre.is_valid /\ Candidates(doc.lines) = {50}) =>
              Parsed = <<Call("parse_options", 0, g_strstrip(doc.lines[50]))>>

\* a pass over a valid document whose only modeline is at line index 50
C6_Witness ==
    /\ event \in Events
    /\ pre.is_valid
    /\ Len(doc.lines) = 51
    /\ IsModeline(doc.lines[51])
    /\ Candidates(doc.lines) = {}

(***************************************************************************)
(* C7: a token that is malformed (leading or trailing "=") or whose key    *)
(* matches no option changes nothing itself, and the tokens after it are   *)
(* interpreted as if it were absent: the pass leaves the configuration     *)
(* that interpreting the other tokens alone leaves.                        *)
(***************************************************************************)
C7_DroppedTokenHasNoEffect ==
    (event \in Events /\ pre.is_valid /\ Candidates(doc.lines) # {}) =>
        LET buf == g_strstrip(doc.lines[FirstCandidate(doc.lines)])
            toks == SelectSeq(FieldsAfterFirst(buf), LAMBDA t : t # <<>>)
            kept == SelectSeq(toks, LAMBDA t : ~(Malformed(t) \/ UnknownKey(t)))
            w == InterpretAll([doc |-> pre, trace |-> <<>>], kept)
        IN Config(doc) = Config(w.doc)

(***************************************************************************)
(* C8: opt_tab_stop, reached by tabstop/ts, softtabstop/sts and            *)
(* shiftwidth/sw with a value, sets the indent width to its integer        *)
(* argument and leaves the indent type, the line-wrap mode and the         *)
(* encoding as they were.                                                  *)
(***************************************************************************)
C8_TabStopSetsWidthOnly ==
    event = "interpret_option" =>
        /\ (Lowered(KeyOf(StepToken)) \in WidthKeys /\ HasEq(StepToken)
               /\ ValueOf(StepToken) # <<>>) =>
              Len(CallsOf({"opt_tab_stop"})) = 1
        /\ \A i \in DOMAIN trace :
              trace[i].call = "opt_tab_stop" =>
                 /\ doc.indent_width = trace[i].iarg
                 /\ doc.indent_type = pre.indent_type
                 /\ doc.line_wrapping = pre.line_wrapping
                 /\ doc.wrap_mode = pre.wrap_mode
                 /\ doc.encoding = pre.encoding

\* the width handler ran on a document indented with spaces and changed the width
C8_Witness ==
    /\ event = "interpret_option"
    /\ Len(CallsOf({"opt_tab_stop"})) = 1
    /\ pre.indent_type = "GEANY_INDENT_TYPE_SPACES"
    /\ doc.indent_width # pre.indent_width

(***************************************************************************)
(* C9: the integer handed to opt_tab_stop is never negative, and for a     *)
(* value that is a digit string it is the number written, also beyond the  *)
(* signed 32-bit range; with no value the handler is not invoked.          *)
(***************************************************************************)
C9_WidthIsTheUnsignedValue ==
    event = "interpret_option" =>
        /\ ~HasEq(StepToken) => CallsOf({"opt_tab_stop"}) = <<>>
        /\ \A i \in DOMAIN trace :
              trace[i].call = "opt_tab_stop" =>
                 /\ trace[i].iarg >= 0
                 /\ AllDigits(g_strstrip(ValueOf(StepToken))) =>
                       Decimal(trace[i].iarg) = StripZeros(g_strstrip(ValueOf(StepToken)))

(***************************************************************************)
(* C10: a document-open event ends with exactly one reload request, made   *)
(* after the pass with the encoding the pass left; a document-save event   *)
(* requests no reload.                                                     *)
(***************************************************************************)
C10_ReloadAfterPassOnOpenOnly ==
    /\ event = "document-open" =>
          /\ Len(Reloads) = 1
          /\ trace[Len(trace)] = Call("document_reload_force", 0, doc.encoding)
    /\ event = "document-save" => Reloads = <<>>

\* an open event whose modeline changed the encoding before the reload
C10_Witness ==
    /\ event = "document-open"
    /\ doc.encoding # pre.encoding
    /\ HandlerCalls # <<>>

====
